---- MODULE Spec2Model ----
(***************************************************************************)
(* Model of the indicator back-filling helpers of the election-turnout     *)
(* notebooks and of the e-commerce collaborators:                          *)
(*   Presidential_election_ver_2/data_cleaning_methods.py                  *)
(*   Presidential_election_turnout_prediction_model/Notebooks/             *)
(*       feature_engineering_methods.py                                    *)
(*   E-commerce_Marketing_Automation_Agent/src/ai_agent_methods.py         *)
(*   E-commerce_Marketing_Automation_Agent/src/database_methods.py         *)
(*   e_commerce_churn_sentinel_SQL_based_ETL_&_AI_prediction_system/src/   *)
(*       database_methods.py                                               *)
(*                                                                         *)
(* A DataFrame is a sequence of rows; a row is a function from column      *)
(* names to cells.  Indicator cells are integers counted in hundredths     *)
(* (7.25 is 725), so rounding to one decimal is rounding to a multiple of  *)
(* 10 and rounding to a whole number is rounding to a multiple of 100.     *)
(* Floating-point least squares is modelled by exact rational arithmetic.  *)
(***************************************************************************)
EXTENDS Integers, Sequences, FiniteSets, TLC

VARIABLES
    dataframe,      \* the table the notebook is working on
    before,         \* the table the last call received
    call,           \* the last call: [fn |-> name, <its arguments>]
    raised,         \* the exception that escaped the last call ("" for none)
    ncalls,         \* number of calls made so far
    series,         \* batch backcaster: county -> observed values, chronological
    pending,        \* batch backcaster: counties not yet processed
    collected,      \* batch backcaster: the valid results kept so far
    fit             \* batch backcaster: county -> what auto_arima did

vars == <<dataframe, before, call, raised, ncalls, series, pending, collected, fit>>

-----------------------------------------------------------------------------
(* Cells and arithmetic                                                    *)

\* float("nan"): a cell value outside every indicator range of the model.
NaN == 0 - 2^20

IsNaN(v) == v = NaN

\* numpy's round(x, decimals): the multiple of unit nearest to num/den
\* (den > 0), ties to the even multiple; NaN stays NaN.
RoundHalfEven(num, den, unit) ==
    LET d == den * unit
        k == num \div d
        r == num % d
    IN  IF 2 * r < d THEN k * unit
        ELSE IF 2 * r > d THEN (k + 1) * unit
        ELSE IF k % 2 = 0 THEN k * unit
        ELSE (k + 1) * unit

\* round(v, 1) of a cell
Round1(v) == IF IsNaN(v) THEN NaN ELSE RoundHalfEven(v, 1, 10)

\* ndarray.round(0) of a cell
Round0(v) == IF IsNaN(v) THEN NaN ELSE RoundHalfEven(v, 1, 100)

RECURSIVE SeqSum(_)
SeqSum(s) == IF s = <<>> THEN 0 ELSE Head(s) + SeqSum(Tail(s))

Range(s) == {s[i] : i \in DOMAIN s}

-----------------------------------------------------------------------------
(* Tables                                                                  *)

\* A cell of a code column is a Python str (s, its characters: the digits
\* 0-9, and 10 + k for the k-th letter after "a"), an integer (n) or NaN.
Str(s) == [t |-> "str", s |-> s, n |-> 0]

IntCell(n) == [t |-> "int", s |-> <<>>, n |-> n]

NaNCell == [t |-> "nan", s |-> <<>>, n |-> 0]

\* str(n) of an integer n >= 0: its decimal digits
RECURSIVE Digits(_)
Digits(n) == IF n < 10 THEN <<n>> ELSE Append(Digits(n \div 10), n % 10)

\* int(s) of a string of digits
RECURSIVE IntOf(_)
IntOf(s) == IF s = <<>> THEN 0 ELSE 10 * IntOf(SubSeq(s, 1, Len(s) - 1)) + s[Len(s)]

\* "nan"
NanStr == <<23, 10, 23>>

\* Series.astype(str) of one cell
AsStr(cell) ==
    IF cell.t = "str" THEN cell.s
    ELSE IF cell.t = "int" THEN Digits(cell.n)
    ELSE NanStr

\* str.zfill(width)
RECURSIVE zfill(_, _)
zfill(s, width) == IF Len(s) >= width THEN s ELSE zfill(<<0>> \o s, width)

\* str[:k]
Prefix(s, k) == SubSeq(s, 1, IF Len(s) < k THEN Len(s) ELSE k)

\* A row of the indicator table; its terc_code is a str.
Row(county, terc_code, year, x, z) ==
    [county |-> county, terc_code |-> Str(terc_code), year |-> year, x |-> x, z |-> z]

Columns(df) == UNION {DOMAIN df[i] : i \in DOMAIN df}

Keys(df) == {<<df[i].county, df[i].year>> : i \in DOMAIN df}

\* (county, year) identifies a row
UniqueKeys(df) ==
    \A i, j \in DOMAIN df :
        (df[i].county = df[j].county /\ df[i].year = df[j].year) => i = j

-----------------------------------------------------------------------------
(* update_df_after_arima_backcasting                                       *)

\* lines 282-296: one update row per prediction, the i-th prediction of a
\* county at year nearest_year - i (i from 0).
BuildUpdatesShifted(valid_results, nearest_year) ==
    LET F[n \in 0..Len(valid_results)] ==
            IF n = 0 THEN <<>>
            ELSE LET county == valid_results[n][1]
                     preds == valid_results[n][2]
                 IN  F[n - 1] \o
                     [i \in 1..Len(preds) |->
                         [county |-> county, year |-> nearest_year - i,
                          val |-> preds[i]]]
    IN  F[Len(valid_results)]

BuildUpdates(valid_results, nearest_year) ==
    LET F[n \in 0..Len(valid_results)] ==
            IF n = 0 THEN <<>>
            ELSE LET county == valid_results[n][1]
                     preds == valid_results[n][2]
                 IN  F[n - 1] \o
                     [i \in 1..Len(preds) |->
                         [county |-> county, year |-> nearest_year - (i - 1),
                          val |-> preds[i]]]
    IN  F[Len(valid_results)]

UpdateKeys(updates) == {<<updates[i].county, updates[i].year>> : i \in DOMAIN updates}

HasDuplicateKeys(updates) ==
    \E i, j \in DOMAIN updates :
        i < j /\ updates[i].county = updates[j].county
              /\ updates[i].year = updates[j].year

\* The value other holds at the key of row, NaN when it holds none
\* (other.reindex(self.index)).
Reindexed(updates, row) ==
    LET hit == {i \in DOMAIN updates :
                    updates[i].county = row.county /\ updates[i].year = row.year}
    IN  IF hit = {} THEN NaN ELSE updates[CHOOSE i \in hit : TRUE].val

\* An upsert: rows appended for the keys the table lacks.
DataFrameUpsert(df, updates, column_name, pandas3) ==
    LET missing == SelectSeq(updates,
                       LAMBDA u : <<u.county, u.year>> \notin Keys(df))
    IN  [df |-> [i \in DOMAIN df |->
                    IF column_name \in DOMAIN df[i]
                       /\ ~IsNaN(Reindexed(updates, df[i]))
                    THEN [df[i] EXCEPT ![column_name] = Reindexed(updates, df[i])]
                    ELSE df[i]]
                \o [k \in DOMAIN missing |->
                       Row(missing[k].county, <<>>, missing[k].year,
                           missing[k].val, NaN)],
         err |-> ""]

\* A merge by concatenation: every update row appended to the table.
DataFrameConcat(df, updates, column_name, pandas3) ==
    [df |-> df \o [k \in DOMAIN updates |->
                      Row(updates[k].county, <<>>, updates[k].year,
                          updates[k].val, NaN)],
     err |-> ""]

\* lines 298-301: DataFrame.update on the (county, year) index.  other is
\* aligned to the table's index, which needs other's keys to be unique
\* (ValueError otherwise); pandas 3 also rejects an other that shares no key
\* with the table.  Where other holds a non-NaN value the cell of
\* column_name is overwritten; nothing else is written and no row is added.
DataFrameUpdate(df, updates, column_name, pandas3) ==
    IF HasDuplicateKeys(updates) THEN [df |-> df, err |-> "ValueError"]
    ELSE IF pandas3 /\ UpdateKeys(updates) \cap Keys(df) = {}
    THEN [df |-> df, err |-> "ValueError"]
    ELSE [df |-> [i \in DOMAIN df |->
                    IF column_name \in DOMAIN df[i]
                       /\ ~IsNaN(Reindexed(updates, df[i]))
                    THEN [df[i] EXCEPT ![column_name] = Reindexed(updates, df[i])]
                    ELSE df[i]],
          err |-> ""]

\* lines 263-309.  The result is [df, err]: the returned table, or the
\* exception that escapes (the caller's table is then as it was).
update_df_after_arima_backcasting(df, results, column_name, nearest_year, pandas3) ==
    DataFrameUpdate(df, BuildUpdates(results, nearest_year), column_name, pandas3)

-----------------------------------------------------------------------------
(* Specification SpecUpd: reconciliation of arbitrary result sets          *)

MaxPeriods == 2     \* longest prediction list
MaxResults == 2     \* most (county, predictions) pairs in one result set

UpdCounties == {"A", "B"}

\* Predicted values as auto_arima's rounding leaves them, and NaN.
PredValues == {NaN, 100}

PredLists == UNION {[1..n -> PredValues] : n \in 0..MaxPeriods}

ResultSets == UNION {[1..n -> UpdCounties \X PredLists] : n \in 0..MaxResults}

\* County A has rows for 2000 and 2001, county B for 2001 only.
UpdTables ==
    {<<Row("A", <<0, 2, 0, 1>>, 2000, a0, 7),
       Row("B", <<0, 2, 0, 2>>, 2001, NaN, 8),
       Row("A", <<0, 2, 0, 1>>, 2001, 50, 9)>> : a0 \in {NaN, 40}}

InitUpd ==
    /\ dataframe \in UpdTables
    /\ before = dataframe
    /\ call = [fn |-> "none"]
    /\ raised = ""
    /\ ncalls = 0
    /\ series = <<>>
    /\ pending = <<>>
    /\ collected = <<>>
    /\ fit = <<>>

Reconcile ==
    /\ ncalls = 0
    /\ \E results \in ResultSets, column_name \in {"x", "q"},
          nearest_year \in {2000, 2001}, pandas3 \in BOOLEAN :
          LET r == update_df_after_arima_backcasting(
                       dataframe, results, column_name, nearest_year, pandas3)
          IN  /\ dataframe' = r.df
              /\ raised' = r.err
              /\ call' = [fn |-> "update", valid_results |-> results,
                          column_name |-> column_name,
                          nearest_year |-> nearest_year, pandas3 |-> pandas3]
    /\ before' = dataframe
    /\ ncalls' = 1
    /\ UNCHANGED <<series, pending, collected, fit>>

\* The same call made again on the table the first call returned.
ReconcileAgain ==
    /\ ncalls = 1
    /\ call.fn = "update"
    /\ raised = ""
    /\ LET r == update_df_after_arima_backcasting(
                    dataframe, call.valid_results, call.column_name,
                    call.nearest_year, call.pandas3)
       IN  /\ dataframe' = r.df
           /\ raised' = r.err
    /\ before' = dataframe
    /\ ncalls' = 2
    /\ UNCHANGED <<call, series, pending, collected, fit>>

NextUpd == Reconcile \/ ReconcileAgain

SpecUpd == InitUpd /\ [][NextUpd]_vars

-----------------------------------------------------------------------------
(* backcasting_arima and the batch that calls it                           *)

None == <<>>

Reverse(s) == [i \in 1..Len(s) |-> s[Len(s) + 1 - i]]

\* What pm.auto_arima(...) followed by model.predict(n_periods) can do with
\* a training series: raise, or return n_periods raw predictions.
RawPredictions == {149, 150}

ArimaOutcomes(periods) ==
    {[raises |-> TRUE, prediction |-> <<>>]}
    \cup {[raises |-> FALSE, prediction |-> p] : p \in [1..periods -> RawPredictions]}

\* The length guard admitting two observations.
backcasting_arima_guard2(county_id, values, periods, lib) ==
    IF Len(values) < 2
    THEN [ret |-> None, training_data |-> None, fitted |-> FALSE, exc |-> ""]
    ELSE IF lib.raises
    THEN [ret |-> None, training_data |-> Reverse(values), fitted |-> TRUE, exc |-> ""]
    ELSE [ret |-> <<county_id, [i \in DOMAIN lib.prediction |-> Round0(lib.prediction[i])]>>,
          training_data |-> Reverse(values), fitted |-> TRUE, exc |-> ""]

\* The fit and the prediction outside any try block.
backcasting_arima_no_try(county_id, values, periods, lib) ==
    IF Len(values) < 3
    THEN [ret |-> None, training_data |-> None, fitted |-> FALSE, exc |-> ""]
    ELSE IF lib.raises
    THEN [ret |-> None, training_data |-> Reverse(values), fitted |-> TRUE,
          exc |-> "Exception"]
    ELSE [ret |-> <<county_id, [i \in DOMAIN lib.prediction |-> Round0(lib.prediction[i])]>>,
          training_data |-> Reverse(values), fitted |-> TRUE, exc |-> ""]

\* lines 234-261.  lib is what the library does when it is called.  ret is
\* the returned value, training_data what auto_arima was given, fitted
\* whether auto_arima was called, exc the exception that escapes the call.
backcasting_arima(county_id, values, periods, lib) ==
    IF Len(values) < 3
    THEN [ret |-> None, training_data |-> None, fitted |-> FALSE, exc |-> ""]
    ELSE IF lib.raises
    THEN [ret |-> None, training_data |-> Reverse(values), fitted |-> TRUE, exc |-> ""]
    ELSE [ret |-> <<county_id, [i \in DOMAIN lib.prediction |-> Round0(lib.prediction[i])]>>,
          training_data |-> Reverse(values), fitted |-> TRUE, exc |-> ""]

-----------------------------------------------------------------------------
(* Specification SpecArima: the batch backcaster, then reconciliation      *)

MaxObs == 4         \* longest observed series of a county

ArimaCounties == <<"A", "B", "C">>

FirstObservedYear == 2002

\* The observed value of a county's n-th observed year.
Observed(n) == 300 + 100 * n

\* Every county has rows for the two years to fill (2000, 2001; x missing)
\* and for its observed years, FirstObservedYear onwards.
ArimaTable(len) ==
    LET F[n \in 0..Len(ArimaCounties)] ==
            IF n = 0 THEN <<>>
            ELSE LET c == ArimaCounties[n]
                 IN  F[n - 1]
                     \o <<Row(c, <<0, 2, 0, n>>, 2000, NaN, 7),
                          Row(c, <<0, 2, 0, n>>, 2001, NaN, 7)>>
                     \o [k \in 1..len[c] |->
                            Row(c, <<0, 2, 0, n>>, FirstObservedYear + k - 1,
                                Observed(k), 7)]
    IN  F[Len(ArimaCounties)]

\* The chronological series of a county: its x values from FirstObservedYear on
\* (the rows of a county are in year order).
SeriesOf(df, county) ==
    LET rows == SelectSeq(df, LAMBDA r : r.county = county /\ r.year >= FirstObservedYear)
    IN  [k \in DOMAIN rows |-> rows[k].x]

InitArima ==
    /\ \E len \in [Range(ArimaCounties) -> 0..MaxObs] :
          /\ dataframe = ArimaTable(len)
          /\ series = [c \in Range(ArimaCounties) |-> SeriesOf(ArimaTable(len), c)]
    /\ before = dataframe
    /\ \E periods \in 1..MaxPeriods :
          call = [fn |-> "batch", periods |-> periods, nearest_year |-> 2001]
    /\ raised = ""
    /\ ncalls = 0
    /\ pending = ArimaCounties
    /\ collected = <<>>
    /\ fit = [c \in Range(ArimaCounties) |->
                 [done |-> FALSE, fitted |-> FALSE, failed |-> FALSE,
                  training_data |-> None, ret |-> None]]

\* One entity of the batch: backcasting_arima on its series, the outcome
\* kept when it is not None.  An exception escaping the call ends the batch.
BackcastNext ==
    /\ pending # <<>>
    /\ raised = ""
    /\ call.fn = "batch"
    /\ \E lib \in ArimaOutcomes(call.periods) :
          LET county == Head(pending)
              r == backcasting_arima(county, series[county], call.periods, lib)
          IN  IF r.exc # ""
              THEN /\ raised' = r.exc
                   /\ UNCHANGED <<pending, collected, fit>>
              ELSE /\ raised' = ""
                   /\ pending' = Tail(pending)
                   /\ collected' = IF r.ret = None THEN collected
                                   ELSE Append(collected, r.ret)
                   /\ fit' = [fit EXCEPT ![county] =
                                 [done |-> TRUE, fitted |-> r.fitted,
                                  failed |-> r.fitted /\ lib.raises,
                                  training_data |-> r.training_data,
                                  ret |-> r.ret]]
    /\ UNCHANGED <<dataframe, before, call, ncalls, series>>

\* The batch is over: its valid results are written back.
ReconcileBatch ==
    /\ pending = <<>>
    /\ raised = ""
    /\ call.fn = "batch"
    /\ \E pandas3 \in BOOLEAN :
          LET r == update_df_after_arima_backcasting(
                       dataframe, collected, "x", call.nearest_year, pandas3)
          IN  /\ dataframe' = r.df
              /\ raised' = r.err
              /\ call' = [fn |-> "update", valid_results |-> collected,
                          column_name |-> "x", nearest_year |-> call.nearest_year,
                          pandas3 |-> pandas3, periods |-> call.periods]
    /\ before' = dataframe
    /\ ncalls' = 1
    /\ UNCHANGED <<series, pending, collected, fit>>

NextArima == BackcastNext \/ ReconcileBatch

SpecArima == InitArima /\ [][NextArima]_vars

-----------------------------------------------------------------------------
(* extrapolate_1999_data                                                   *)

\* String order of two codes of digits.
RECURSIVE LexLess(_, _)
LexLess(a, b) ==
    IF b = <<>> THEN FALSE
    ELSE IF a = <<>> THEN TRUE
    ELSE IF Head(a) # Head(b) THEN Head(a) < Head(b)
    ELSE LexLess(Tail(a), Tail(b))

RowLeq(a, b) ==
    \/ LexLess(AsStr(a.terc_code), AsStr(b.terc_code))
    \/ (a.terc_code = b.terc_code /\ a.year <= b.year)

RECURSIVE InsertSorted(_, _)
InsertSorted(s, r) ==
    IF s = <<>> THEN <<r>>
    ELSE IF RowLeq(Head(s), r) THEN <<Head(s)>> \o InsertSorted(Tail(s), r)
    ELSE <<r>> \o s

\* line 57: sort_values(by = ["terc_code", "year"]), a stable sort
SortByTercYear(df) ==
    LET F[n \in 0..Len(df)] ==
            IF n = 0 THEN <<>> ELSE InsertSorted(F[n - 1], df[n])
    IN  F[Len(df)]

\* line 51: (dataframe[col] >= 0).all(); a comparison with NaN is False
AllNonNegative(df, col) ==
    \A i \in DOMAIN df : ~IsNaN(df[i][col]) /\ df[i][col] >= 0

\* line 52: clip(lower = 0)
ClipLower0(v) == IF IsNaN(v) THEN NaN ELSE IF v < 0 THEN 0 ELSE v

\* line 48: (2 * val_2000) - val_2001
LinearBack(val_2000, val_2001) ==
    IF IsNaN(val_2000) \/ IsNaN(val_2001) THEN NaN ELSE 2 * val_2000 - val_2001

\* lines 42-52 without the clip
Synthesized1999NoClip(df, col, val_2000, val_2001) ==
    LinearBack(val_2000, val_2001)

\* lines 42-52: the 1999 cell of one listed column of one entity
Synthesized1999(df, col, val_2000, val_2001) ==
    IF AllNonNegative(df, col)
    THEN ClipLower0(LinearBack(val_2000, val_2001))
    ELSE LinearBack(val_2000, val_2001)

\* lines 30-59.  (terc_code, year) is taken to identify a row among the
\* rows of 2000 and among those of 2001.
extrapolate_1999_data(df, indicators_list) ==
    LET df_2000 == SelectSeq(df, LAMBDA r : r.year = 2000)
        df_2001 == SelectSeq(df, LAMBDA r : r.year = 2001)
        codes_2001 == {df_2001[i].terc_code : i \in DOMAIN df_2001}
        common == SelectSeq(df_2000, LAMBDA r : r.terc_code \in codes_2001)
        Row2001(code) ==
            df_2001[CHOOSE i \in DOMAIN df_2001 : df_2001[i].terc_code = code]
        df_1999 ==
            [k \in DOMAIN common |->
                [c \in DOMAIN common[k] |->
                    IF c = "year" THEN 1999
                    ELSE IF c \in Range(indicators_list) /\ c # "terc_code"
                    THEN Synthesized1999(df, c, common[k][c],
                                         Row2001(common[k].terc_code)[c])
                    ELSE common[k][c]]]
    IN  [df |-> SortByTercYear(df \o df_1999), err |-> ""]

-----------------------------------------------------------------------------
(* Specification Spec1999: synthetic-year insertion on its own             *)

IndicatorLists == {<<"x">>, <<"x", "z">>, <<"q", "z">>, <<>>}

\* Entity 0202 has both years, entity 0201 may lack 2001; rows are not in
\* key order.
Tables1999 ==
    {<<Row("B", <<0, 2, 0, 2>>, 2001, b1, 9), Row("A", <<0, 2, 0, 1>>, 2000, a0, 7),
       Row("B", <<0, 2, 0, 2>>, 2000, b0, 7)>>
       \o (IF has_a1 THEN <<Row("A", <<0, 2, 0, 1>>, 2001, a1, 3)>> ELSE <<>>) :
       b0 \in {10, 30, 100}, b1 \in {10, 30, 90},
       a0 \in {100, 0 - 5, NaN}, a1 \in {90, 250}, has_a1 \in BOOLEAN}

Init1999 ==
    /\ dataframe \in Tables1999
    /\ before = dataframe
    /\ call = [fn |-> "none"]
    /\ raised = ""
    /\ ncalls = 0
    /\ series = <<>>
    /\ pending = <<>>
    /\ collected = <<>>
    /\ fit = <<>>

Extrapolate1999Once ==
    /\ ncalls = 0
    /\ \E indicators_list \in IndicatorLists :
          LET r == extrapolate_1999_data(dataframe, indicators_list)
          IN  /\ dataframe' = r.df
              /\ raised' = r.err
              /\ call' = [fn |-> "extrapolate_1999_data",
                          indicators_list |-> indicators_list]
    /\ before' = dataframe
    /\ ncalls' = 1
    /\ UNCHANGED <<series, pending, collected, fit>>

Next1999 == Extrapolate1999Once

Spec1999 == Init1999 /\ [][Next1999]_vars

-----------------------------------------------------------------------------
(* np.polyfit of degree 1 and the two linear extrapolations               *)

\* np.polyfit(X, y, 1) as exact least squares: slope = a / den and
\* intercept = b / den with den > 0.  An empty X is a TypeError, a NaN in y
\* makes the least-squares solver fail (LinAlgError).  When every X is the
\* same year x0 the system is rank deficient and numpy returns, with a
\* warning, the minimum-norm solution of the column-scaled system:
\* slope = mean(y) / (2 x0), intercept = mean(y) / 2.
polyfit(X, y) ==
    LET n == Len(X)
        Sx == SeqSum(X)
        Sy == SeqSum(y)
        Sxx == SeqSum([i \in DOMAIN X |-> X[i] * X[i]])
        Sxy == SeqSum([i \in DOMAIN X |-> X[i] * y[i]])
        D == n * Sxx - Sx * Sx
        N == n * Sxy - Sx * Sy
    IN  IF n = 0 THEN [err |-> "TypeError", a |-> 0, b |-> 0, den |-> 1]
        ELSE IF \E i \in DOMAIN y : IsNaN(y[i])
        THEN [err |-> "LinAlgError", a |-> 0, b |-> 0, den |-> 1]
        ELSE IF D = 0
        THEN [err |-> "", a |-> Sy, b |-> Sy * X[1], den |-> 2 * n * X[1]]
        ELSE [err |-> "", a |-> n * N, b |-> Sy * D - N * Sx, den |-> n * D]

\* predict = lambda year: slope * year + intercept, as the fraction num / den
predict(model, year) == [num |-> model.a * year + model.b, den |-> model.den]

\* round(forecast, 1)
RoundForecast(forecast) == RoundHalfEven(forecast.num, forecast.den, 10)

\* dataframe["county"].unique(): the counties in order of first appearance
UniqueCounties(df) ==
    LET F[n \in 0..Len(df)] ==
            IF n = 0 THEN <<>>
            ELSE IF df[n].county \in Range(F[n - 1]) THEN F[n - 1]
            ELSE Append(F[n - 1], df[n].county)
    IN  F[Len(df)]

\* dataframe.loc[mask, column_name] = value, mask being (county, year)
SetCells(df, county, year, column_name, value) ==
    [i \in DOMAIN df |->
        IF df[i].county = county /\ df[i].year = year
        THEN [df[i] EXCEPT ![column_name] = value]
        ELSE df[i]]

HasRow(df, county, year) ==
    \E i \in DOMAIN df : df[i].county = county /\ df[i].year = year

\* lines 192-197 and 205-210: what is written for one target year
FilledValue(forecast, val_2002) ==
    IF forecast.num <= 0 THEN Round1(val_2002) ELSE RoundForecast(forecast)

\* lines 174-210: the body of the loop for one county.  The fit does not
\* depend on the order of the training rows, so the sort is not modelled.
ExtrapolateCounty(df, column_name, county) ==
    LET sub_dataframe == SelectSeq(df, LAMBDA r : r.county = county)
        train_data == SelectSeq(sub_dataframe, LAMBDA r : r.year \in {2002, 2003, 2004})
        rows_2002 == SelectSeq(sub_dataframe, LAMBDA r : r.year = 2002)
        X == [i \in DOMAIN train_data |-> train_data[i].year]
        y == [i \in DOMAIN train_data |-> train_data[i][column_name]]
        model == polyfit(X, y)
        val_2002 == rows_2002[1][column_name]
        df1 == IF HasRow(df, county, 2001)
               THEN SetCells(df, county, 2001, column_name,
                             FilledValue(predict(model, 2001), val_2002))
               ELSE df
        df2 == IF HasRow(df1, county, 2000)
               THEN SetCells(df1, county, 2000, column_name,
                             FilledValue(predict(model, 2000), val_2002))
               ELSE df1
    IN  IF rows_2002 = <<>> THEN [df |-> df, err |-> "IndexError"]
        ELSE IF model.err # "" THEN [df |-> df, err |-> model.err]
        ELSE [df |-> df2, err |-> ""]

\* lines 171-210.  The table is changed in place: when a county raises, the
\* counties before it are filled and those after it are not reached.
extrapolate_missing_2000_2001(df, column_name) ==
    LET counties == UniqueCounties(df)
        F[n \in 0..Len(counties)] ==
            IF n = 0 THEN [df |-> df, err |-> ""]
            ELSE IF F[n - 1].err # "" THEN F[n - 1]
            ELSE ExtrapolateCounty(F[n - 1].df, column_name, counties[n])
    IN  F[Len(counties)]

\* The training window without its upper end.
extrapolate_backwards_no_cutoff(df, column_name, county_name, year_x, year_y) ==
    LET train_data == SelectSeq(df, LAMBDA r :
                          r.county = county_name /\ r.year >= year_y + 1)
        X == [i \in DOMAIN train_data |-> train_data[i].year]
        y == [i \in DOMAIN train_data |-> train_data[i][column_name]]
        model == polyfit(X, y)
        F[year \in (year_x - 1)..year_y] ==
            IF year < year_x THEN df
            ELSE SetCells(F[year - 1], county_name, year, column_name,
                          RoundForecast(predict(model, year)))
    IN  IF model.err # "" THEN [df |-> df, err |-> model.err]
        ELSE IF year_x > year_y THEN [df |-> df, err |-> ""]
        ELSE [df |-> F[year_y], err |-> ""]

\* lines 123-151.  The fit comes before any write, so a call that raises
\* leaves the table as it was.
extrapolate_backwards_one_county(df, column_name, county_name, year_x, year_y) ==
    LET train_data == SelectSeq(df, LAMBDA r :
                          r.county = county_name /\ r.year >= year_y + 1 /\ r.year <= 2024)
        X == [i \in DOMAIN train_data |-> train_data[i].year]
        y == [i \in DOMAIN train_data |-> train_data[i][column_name]]
        model == polyfit(X, y)
        F[year \in (year_x - 1)..year_y] ==
            IF year < year_x THEN df
            ELSE SetCells(F[year - 1], county_name, year, column_name,
                          RoundForecast(predict(model, year)))
    IN  IF model.err # "" THEN [df |-> df, err |-> model.err]
        ELSE IF year_x > year_y THEN [df |-> df, err |-> ""]
        ELSE [df |-> F[year_y], err |-> ""]

-----------------------------------------------------------------------------
(* Specification SpecMissing: extrapolate_missing_2000_2001 on its own     *)

\* The rows of one county: 2000 and 2001 to fill (x missing, either may be
\* absent) and whichever of 2002-2004 are present.
CountyRows(county, code, has, v2002, v2003, v2004) ==
    (IF has[2001] THEN <<Row(county, code, 2001, NaN, 7)>> ELSE <<>>)
    \o (IF has[2002] THEN <<Row(county, code, 2002, v2002, 7)>> ELSE <<>>)
    \o (IF has[2000] THEN <<Row(county, code, 2000, NaN, 7)>> ELSE <<>>)
    \o (IF has[2004] THEN <<Row(county, code, 2004, v2004, 7)>> ELSE <<>>)
    \o (IF has[2003] THEN <<Row(county, code, 2003, v2003, 7)>> ELSE <<>>)

Presence == [2000..2004 -> BOOLEAN]

\* County A varies, county B after it has every year and a gentle trend.
TablesMissing ==
    {CountyRows("A", <<0, 2, 0, 1>>, h, v2, v3, v4)
        \o CountyRows("B", <<0, 2, 0, 2>>, [yr \in 2000..2004 |-> TRUE], 500, 510, 520) :
        h \in Presence, v2 \in {4, 24, 100, 110}, v3 \in {34, 200}, v4 \in {44, 300}}

InitMissing ==
    /\ dataframe \in TablesMissing
    /\ before = dataframe
    /\ call = [fn |-> "none"]
    /\ raised = ""
    /\ ncalls = 0
    /\ series = <<>>
    /\ pending = <<>>
    /\ collected = <<>>
    /\ fit = <<>>

ExtrapolateMissingOnce ==
    /\ ncalls = 0
    /\ LET r == extrapolate_missing_2000_2001(dataframe, "x")
       IN  /\ dataframe' = r.df
           /\ raised' = r.err
    /\ call' = [fn |-> "extrapolate_missing_2000_2001", column_name |-> "x"]
    /\ before' = dataframe
    /\ ncalls' = 1
    /\ UNCHANGED <<series, pending, collected, fit>>

NextMissing == ExtrapolateMissingOnce

SpecMissing == InitMissing /\ [][NextMissing]_vars

-----------------------------------------------------------------------------
(* update_terc_codes and merge_df_by_voivodeship                           *)

\* lines 78-90: the left join of target_df with the (county, code) view of
\* source_df, the codes of the view made str, and the match score of each
\* joined row.  A target row without a match is kept once, its new code NaN.
MergedWithSource(target_df, source_df) ==
    LET F[n \in 0..Len(target_df)] ==
            IF n = 0 THEN <<>>
            ELSE LET row == target_df[n]
                     hits == SelectSeq(source_df, LAMBDA r : r.county = row.county)
                     Joined(new) ==
                         [row |-> row, new |-> new,
                          match_score |->
                              IF Prefix(AsStr(row.terc_code), 2) = Prefix(AsStr(new), 2)
                              THEN 1 ELSE 0]
                 IN  F[n - 1] \o
                     (IF hits = <<>> THEN <<Joined(NaNCell)>>
                      ELSE [k \in DOMAIN hits |-> Joined(Str(AsStr(hits[k].terc_code)))])
    IN  F[Len(target_df)]

\* lines 92-96: _original_index ascending, then match_score descending
MergedLeq(a, b) ==
    \/ a.row.idx < b.row.idx
    \/ (a.row.idx = b.row.idx /\ a.match_score >= b.match_score)

RECURSIVE InsertMerged(_, _)
InsertMerged(s, m) ==
    IF s = <<>> THEN <<m>>
    ELSE IF MergedLeq(Head(s), m) THEN <<Head(s)>> \o InsertMerged(Tail(s), m)
    ELSE <<m>> \o s

SortMerged(merged) ==
    LET F[n \in 0..Len(merged)] ==
            IF n = 0 THEN <<>> ELSE InsertMerged(F[n - 1], merged[n])
    IN  F[Len(merged)]

\* line 97: drop_duplicates(subset = ["_original_index"], keep = "first")
DropDuplicateIndex(merged) ==
    LET F[n \in 0..Len(merged)] ==
            IF n = 0 THEN <<>>
            ELSE IF \E k \in 1..(n - 1) : merged[k].row.idx = merged[n].row.idx
            THEN F[n - 1]
            ELSE Append(F[n - 1], merged[n])
    IN  F[Len(merged)]

\* lines 75-105.  The rows come out in the order of their index labels
\* (the sort of line 92 already put them so), each with the new code.
update_terc_codes(target_df, source_df) ==
    LET kept == DropDuplicateIndex(SortMerged(MergedWithSource(target_df, source_df)))
    IN  [k \in DOMAIN kept |-> [kept[k].row EXCEPT !.terc_code = kept[k].new]]

\* lines 336-350: the two-character voivodeship key of a code
VoivodeshipKey(cell, width) == Prefix(zfill(AsStr(cell), width), 2)

\* lines 334-362.  df is the returned table (under a fresh default index,
\* idx, where the model keeps one), main_df the caller's table as the call
\* leaves it (line 345 adds temp_voiv_key to it in place).  A
\* value_column that main_df already has comes out twice, as value_column_x
\* and value_column_y; pandas refuses (MergeError) when that would repeat a
\* column name.
merge_df_by_voivodeship(main_df, sec_df, value_column) ==
    LET cols == Columns(main_df)
        clash == value_column \in cols
        left_name == IF clash THEN value_column \o "_x" ELSE value_column
        right_name == IF clash THEN value_column \o "_y" ELSE value_column
        Out(row, value) ==
            [c \in ((DOMAIN row \ {value_column}) \cup {left_name, right_name}) |->
                IF c = right_name THEN value
                ELSE IF c = left_name THEN row[value_column]
                ELSE row[c]]
        F[n \in 0..Len(main_df)] ==
            IF n = 0 THEN <<>>
            ELSE LET row == main_df[n]
                     hits == SelectSeq(sec_df, LAMBDA r :
                                 /\ r.year = row.year
                                 /\ VoivodeshipKey(r.terc_code, 2)
                                        = VoivodeshipKey(row.terc_code, 4))
                 IN  F[n - 1] \o
                     (IF hits = <<>> THEN <<Out(row, NaN)>>
                      ELSE [k \in DOMAIN hits |-> Out(row, hits[k][value_column])])
        touched == [n \in DOMAIN main_df |->
                       [c \in DOMAIN main_df[n] \cup {"temp_voiv_key"} |->
                           IF c = "temp_voiv_key"
                           THEN Str(VoivodeshipKey(main_df[n].terc_code, 4))
                           ELSE main_df[n][c]]]
        merged_df == [k \in DOMAIN F[Len(main_df)] |->
                         IF "idx" \in DOMAIN F[Len(main_df)][k]
                         THEN [F[Len(main_df)][k] EXCEPT !.idx = k - 1]
                         ELSE F[Len(main_df)][k]]
    IN  IF clash /\ {left_name, right_name} \cap cols # {}
        THEN [df |-> main_df, err |-> "MergeError", main_df |-> touched]
        ELSE [df |-> merged_df, err |-> "", main_df |-> touched]

-----------------------------------------------------------------------------
(* Specification SpecTerc: codes through the join and key-extraction steps *)

\* The codes of the model: county A is 0201, B is 1405, C is in no source.
CodeOf(county) == IF county = "A" THEN <<0, 2, 0, 1>> ELSE <<1, 4, 0, 5>>

\* A code column read as text keeps its strings; read as numbers it holds
\* int(code).
Typed(dtype, code) == IF dtype = "str" THEN Str(code) ELSE IntCell(IntOf(code))

\* source_df: one row for B, and for A its own code and, when twice, a
\* second code of another voivodeship before it.
SourceTables ==
    {(IF twice THEN <<[county |-> "A", terc_code |-> Typed(dtype, <<1, 4, 6, 1>>)]>>
      ELSE <<>>)
     \o <<[county |-> "A", terc_code |-> Typed(dtype, CodeOf("A"))],
          [county |-> "B", terc_code |-> Typed(dtype, CodeOf("B"))]>> :
        dtype \in {"str", "int"}, twice \in BOOLEAN}

\* sec_df: one value per voivodeship for the year 2000, the codes of two
\* characters read as text or as numbers.
SecTables ==
    {<<[year |-> 2000, terc_code |-> Typed(dtype, <<0, 2>>), w |-> 11],
       [year |-> 2000, terc_code |-> Typed(dtype, <<1, 4>>), w |-> 12],
       [year |-> 2001, terc_code |-> Typed(dtype, <<0, 2>>), w |-> 13]>> :
        dtype \in {"str", "int"}}

\* The index labels of a two-row frame: the default index, the index of a
\* frame that was sorted by a column, and the index of a frame concatenated
\* from two files without ignore_index.
IndexLabels == {<<0, 1>>, <<1, 0>>, <<0, 0>>}

\* target_df / main_df: two rows, each a county with a zero-padded or a
\* plain code.
TargetTables ==
    {<<[idx |-> ix[1], county |-> c1, terc_code |-> Str(t1), year |-> 2000, z |-> 7],
       [idx |-> ix[2], county |-> c2, terc_code |-> Str(t2), year |-> y2, z |-> 8]>> :
        c1 \in {"A", "B", "C"}, c2 \in {"A", "B"},
        t1 \in {<<0, 2, 0, 1>>, <<0, 2, 9, 9>>, <<1, 4, 0, 5>>},
        t2 \in {<<0, 2, 0, 1>>, <<1, 4, 0, 5>>}, y2 \in {2000, 2002},
        ix \in IndexLabels}

InitTerc ==
    /\ dataframe \in TargetTables
    /\ before = dataframe
    /\ call = [fn |-> "none"]
    /\ raised = ""
    /\ ncalls = 0
    /\ series = <<>>
    /\ pending = <<>>
    /\ collected = <<>>
    /\ fit = <<>>

\* dataframe = update_terc_codes(dataframe, source_df).  Line 75 rebinds
\* target_df to a copy, so the frame passed in (call.target_df) is as it was.
UpdateTercCodes ==
    /\ ncalls = 0
    /\ \E source_df \in SourceTables :
          /\ dataframe' = update_terc_codes(dataframe, source_df)
          /\ call' = [fn |-> "update_terc_codes", source_df |-> source_df,
                      target_df |-> dataframe]
    /\ raised' = ""
    /\ before' = dataframe
    /\ ncalls' = 1
    /\ UNCHANGED <<series, pending, collected, fit>>

MergeByVoivodeshipOnce ==
    /\ ncalls = 0
    /\ \E sec_df \in SecTables :
          LET r == merge_df_by_voivodeship(dataframe, sec_df, "w")
          IN  /\ dataframe' = r.df
              /\ raised' = r.err
              /\ call' = [fn |-> "merge_df_by_voivodeship", sec_df |-> sec_df,
                          value_column |-> "w", main_df |-> r.main_df]
    /\ before' = dataframe
    /\ ncalls' = 1
    /\ UNCHANGED <<series, pending, collected, fit>>

NextTerc == UpdateTercCodes \/ MergeByVoivodeshipOnce

SpecTerc == InitTerc /\ [][NextTerc]_vars

-----------------------------------------------------------------------------
(* Specification Spec: the passes of the pipeline over one indicator table *)

MaxCalls == 3       \* passes applied to the table in one run

\* County A (0201) has 2000-2004, county B (0402) 2000-2003 with or
\* without 2002; x is missing for 2000 and 2001.  Rows are in key order.
PipelineTables ==
    {<<Row("A", <<0, 2, 0, 1>>, 2000, NaN, 7), Row("A", <<0, 2, 0, 1>>, 2001, NaN, 7),
       Row("A", <<0, 2, 0, 1>>, 2002, a2, 7), Row("A", <<0, 2, 0, 1>>, 2003, a2 + 10, 7),
       Row("A", <<0, 2, 0, 1>>, 2004, a2 + 20, 7),
       Row("B", <<0, 4, 0, 2>>, 2000, NaN, 8), Row("B", <<0, 4, 0, 2>>, 2001, NaN, 8)>>
     \o (IF b_has_2002 THEN <<Row("B", <<0, 4, 0, 2>>, 2002, 300, 8)>> ELSE <<>>)
     \o <<Row("B", <<0, 4, 0, 2>>, 2003, 290, 8)>> :
        a2 \in {24, 500}, b_has_2002 \in BOOLEAN}

PipelineResultSets ==
    {<<>>, <<<<"A", <<100, 200>>>>>>, <<<<"A", <<100>>>>, <<"B", <<300, NaN>>>>>>}

PipelineSecTables ==
    {<<[year |-> 2000, terc_code |-> Typed(dtype, <<0, 2>>), w |-> 11],
       [year |-> 2000, terc_code |-> Typed(dtype, <<0, 4>>), w |-> 12],
       [year |-> 2001, terc_code |-> Typed(dtype, <<0, 2>>), w |-> 13]>> :
        dtype \in {"str", "int"}}

Init ==
    /\ dataframe \in PipelineTables
    /\ before = dataframe
    /\ call = [fn |-> "none"]
    /\ raised = ""
    /\ ncalls = 0
    /\ series = <<>>
    /\ pending = <<>>
    /\ collected = <<>>
    /\ fit = <<>>

\* A pass is run while no exception has stopped the run.
CanCall == ncalls < MaxCalls /\ raised = ""

Extrapolate1999 ==
    /\ CanCall
    /\ LET r == extrapolate_1999_data(dataframe, <<"x">>)
       IN  /\ dataframe' = r.df
           /\ raised' = r.err
    /\ call' = [fn |-> "extrapolate_1999_data", indicators_list |-> <<"x">>]
    /\ before' = dataframe
    /\ ncalls' = ncalls + 1
    /\ UNCHANGED <<series, pending, collected, fit>>

ExtrapolateMissing ==
    /\ CanCall
    /\ LET r == extrapolate_missing_2000_2001(dataframe, "x")
       IN  /\ dataframe' = r.df
           /\ raised' = r.err
    /\ call' = [fn |-> "extrapolate_missing_2000_2001", column_name |-> "x"]
    /\ before' = dataframe
    /\ ncalls' = ncalls + 1
    /\ UNCHANGED <<series, pending, collected, fit>>

ExtrapolateBackwards ==
    /\ CanCall
    /\ \E county_name \in {"A", "B"}, years \in {<<1999, 2001>>, <<2000, 2000>>} :
          LET r == extrapolate_backwards_one_county(
                       dataframe, "x", county_name, years[1], years[2])
          IN  /\ dataframe' = r.df
              /\ raised' = r.err
              /\ call' = [fn |-> "extrapolate_backwards_one_county",
                          column_name |-> "x", county_name |-> county_name,
                          year_x |-> years[1], year_y |-> years[2]]
    /\ before' = dataframe
    /\ ncalls' = ncalls + 1
    /\ UNCHANGED <<series, pending, collected, fit>>

ReconcilePass ==
    /\ CanCall
    /\ \E results \in PipelineResultSets, pandas3 \in BOOLEAN :
          LET r == update_df_after_arima_backcasting(dataframe, results, "x", 2001, pandas3)
          IN  /\ dataframe' = r.df
              /\ raised' = r.err
              /\ call' = [fn |-> "update", valid_results |-> results,
                          column_name |-> "x", nearest_year |-> 2001,
                          pandas3 |-> pandas3]
    /\ before' = dataframe
    /\ ncalls' = ncalls + 1
    /\ UNCHANGED <<series, pending, collected, fit>>

MergeByVoivodeship ==
    /\ CanCall
    /\ \E sec_df \in PipelineSecTables :
          LET r == merge_df_by_voivodeship(dataframe, sec_df, "w")
          IN  /\ dataframe' = r.df
              /\ raised' = r.err
              /\ call' = [fn |-> "merge_df_by_voivodeship", sec_df |-> sec_df,
                          value_column |-> "w", main_df |-> r.main_df]
    /\ before' = dataframe
    /\ ncalls' = ncalls + 1
    /\ UNCHANGED <<series, pending, collected, fit>>

Next ==
    \/ Extrapolate1999
    \/ ExtrapolateMissing
    \/ ExtrapolateBackwards
    \/ ReconcilePass
    \/ MergeByVoivodeship

Spec == Init /\ [][Next]_vars

-----------------------------------------------------------------------------
(* generate_email (E-commerce_Marketing_Automation_Agent/src/              *)
(* ai_agent_methods.py) and Specification SpecEmail: the calls of a run    *)

MaxEmails == 2      \* calls of generate_email in one run

\* Customer records: a pandas Series with an identifier and a category.
CustomerRows == [customer_id : {1, 2}, segmentation : {"vip", "lost", "new"}]

\* Category-to-instruction mappings: one covers every category of the
\* records, the other has no entry for "new".
Prompts ==
    {[s \in {"vip", "lost", "new"} |-> "instruction"],
     [s \in {"vip", "lost"} |-> "instruction"]}

\* What client.chat.completions.create(...) can do: raise (network error),
\* return a completion without choices (malformed response), or return a
\* completion whose first choice holds the message body.
RemoteOutcomes ==
    {[kind |-> "raises", content |-> ""],
     [kind |-> "malformed", content |-> ""],
     [kind |-> "completion", content |-> "Dear Customer"],
     [kind |-> "completion", content |-> "Hello"]}

\* lines 5-39.  client is what the remote call does when it is made.  ret
\* is the returned value, exc the exception that escapes the call, events
\* what the call did, in order.
generate_email(row, client, prompt) ==
    LET segment == row.segmentation
    IN  IF segment \notin DOMAIN prompt
        THEN [ret |-> "", exc |-> "KeyError", events |-> <<>>]
        ELSE IF client.kind = "raises"
        THEN [ret |-> "ERROR", exc |-> "", events |-> <<"create", "print">>]
        ELSE IF client.kind = "malformed"
        THEN [ret |-> "ERROR", exc |-> "", events |-> <<"create", "choices", "print">>]
        ELSE [ret |-> client.content, exc |-> "",
              events |-> <<"create", "choices", "sleep">>]

InitEmail ==
    /\ dataframe = <<>>
    /\ before = <<>>
    /\ call = [fn |-> "none"]
    /\ raised = ""
    /\ ncalls = 0
    /\ series = <<>>
    /\ pending = <<>>
    /\ collected = <<>>
    /\ fit = <<>>

\* One call of generate_email; the returned string is kept.
GenerateEmail ==
    /\ ncalls < MaxEmails
    /\ raised = ""
    /\ \E row \in CustomerRows, prompt \in Prompts, client \in RemoteOutcomes :
          LET r == generate_email(row, client, prompt)
          IN  /\ call' = [fn |-> "generate_email", row |-> row, prompt |-> prompt,
                          client |-> client, events |-> r.events, ret |-> r.ret]
              /\ raised' = r.exc
              /\ collected' = IF r.exc = "" THEN Append(collected, r.ret) ELSE collected
    /\ ncalls' = ncalls + 1
    /\ UNCHANGED <<dataframe, before, series, pending, fit>>

NextEmail == GenerateEmail

SpecEmail == InitEmail /\ [][NextEmail]_vars

-----------------------------------------------------------------------------
(* psql_insert_copy (the two database_methods.py) and Specification        *)
(* SpecCopy: bulk loads into one database table                            *)

MaxRows == 2        \* row tuples handed to one load
MaxCopies == 2      \* loads in one run

\* What a call returns: an int, or None.
IntValue(n) == [none |-> FALSE, value |-> n]

NoneValue == [none |-> TRUE, value |-> 0]

\* data_iter: the row tuples pandas hands to the insertion method.
RowTuples == {<<1, 10>>, <<2, 20>>}

DataIters == UNION {[1..n -> RowTuples] : n \in 0..MaxRows}

\* lines 31-34: csv.writer(s_buf).writerows(data_iter); one CSV record per
\* row tuple, in order.
writerows(data_iter) == data_iter

\* What cur.copy_expert(sql, file) can do with the buffer: raise (the
\* database rejects the COPY), or load every record and leave the cursor's
\* rowcount at the number of rows loaded, or at -1 when the driver cannot
\* determine it.
CopyOutcomes(s_buf) ==
    {[raises |-> TRUE, written |-> <<>>, rowcount |-> 0 - 1],
     [raises |-> FALSE, written |-> s_buf, rowcount |-> Len(s_buf)],
     [raises |-> FALSE, written |-> s_buf, rowcount |-> 0 - 1]}

\* E-commerce_Marketing_Automation_Agent/src/database_methods.py, lines
\* 24-41.  db is what copy_expert does; ret is the returned value, exc the
\* exception that escapes, written the rows the COPY loaded.
psql_insert_copy(keys, data_iter, db) ==
    IF db.raises
    THEN [ret |-> NoneValue, exc |-> "DatabaseError", written |-> <<>>]
    ELSE [ret |-> IntValue(db.rowcount), exc |-> "", written |-> db.written]

\* e_commerce_churn_sentinel_SQL_based_ETL_&_AI_prediction_system/src/
\* database_methods.py, lines 24-40: the function ends after copy_expert,
\* without a return statement.
psql_insert_copy_churn_sentinel(keys, data_iter, db) ==
    IF db.raises
    THEN [ret |-> NoneValue, exc |-> "DatabaseError", written |-> <<>>]
    ELSE [ret |-> NoneValue, exc |-> "", written |-> db.written]

InitCopy ==
    /\ dataframe = <<>>
    /\ before = <<>>
    /\ call = [fn |-> "none"]
    /\ raised = ""
    /\ ncalls = 0
    /\ series = <<>>
    /\ pending = <<>>
    /\ collected = <<>>
    /\ fit = <<>>

\* One load by the marketing agent's copy; dataframe is the database table.
CopyMarketing ==
    /\ ncalls < MaxCopies
    /\ raised = ""
    /\ \E data_iter \in DataIters :
          \E db \in CopyOutcomes(writerows(data_iter)) :
             LET r == psql_insert_copy(<<"id", "v">>, data_iter, db)
             IN  /\ call' = [fn |-> "psql_insert_copy", project |-> "marketing",
                             data_iter |-> data_iter, db |-> db, ret |-> r.ret]
                 /\ raised' = r.exc
                 /\ dataframe' = dataframe \o r.written
    /\ before' = dataframe
    /\ ncalls' = ncalls + 1
    /\ UNCHANGED <<series, pending, collected, fit>>

\* One load by the churn sentinel's copy.
CopyChurnSentinel ==
    /\ ncalls < MaxCopies
    /\ raised = ""
    /\ \E data_iter \in DataIters :
          \E db \in CopyOutcomes(writerows(data_iter)) :
             LET r == psql_insert_copy_churn_sentinel(<<"id", "v">>, data_iter, db)
             IN  /\ call' = [fn |-> "psql_insert_copy", project |-> "churn_sentinel",
                             data_iter |-> data_iter, db |-> db, ret |-> r.ret]
                 /\ raised' = r.exc
                 /\ dataframe' = dataframe \o r.written
    /\ before' = dataframe
    /\ ncalls' = ncalls + 1
    /\ UNCHANGED <<series, pending, collected, fit>>

NextCopy == CopyMarketing \/ CopyChurnSentinel

SpecCopy == InitCopy /\ [][NextCopy]_vars

-----------------------------------------------------------------------------
(* Specification SpecBackwards: one call of                                *)
(* extrapolate_backwards_one_county                                        *)

\* County A has x missing for 2000 and 2001 (the 2001 row may be absent),
\* values for 2002 and 2003 and a row beyond the cutoff year 2024; county B
\* has its own rows for the same years.  Row order is not key order.
TablesBackwards ==
    {<<Row("A", <<0, 2, 0, 1>>, 2000, NaN, 7)>>
     \o (IF has_2001 THEN <<Row("A", <<0, 2, 0, 1>>, 2001, NaN, 7)>> ELSE <<>>)
     \o <<Row("B", <<0, 2, 0, 2>>, 2000, NaN, 8),
          Row("A", <<0, 2, 0, 1>>, 2003, a3, 7),
          Row("A", <<0, 2, 0, 1>>, 2002, a2, 7),
          Row("B", <<0, 2, 0, 2>>, 2002, 500, 8),
          Row("A", <<0, 2, 0, 1>>, 2025, a25, 7),
          Row("B", <<0, 2, 0, 2>>, 2003, 515, 8)>> :
        has_2001 \in BOOLEAN, a2 \in {100, 113}, a3 \in {120, 150}, a25 \in {130, 900}}

InitBackwards ==
    /\ dataframe \in TablesBackwards
    /\ before = dataframe
    /\ call = [fn |-> "none"]
    /\ raised = ""
    /\ ncalls = 0
    /\ series = <<>>
    /\ pending = <<>>
    /\ collected = <<>>
    /\ fit = <<>>

\* One call; "C" is a county the table does not hold.
ExtrapolateBackwardsOnce ==
    /\ ncalls = 0
    /\ \E county_name \in {"A", "B", "C"}, year_x \in 1999..2001, year_y \in 2000..2003 :
          LET r == extrapolate_backwards_one_county(
                       dataframe, "x", county_name, year_x, year_y)
          IN  /\ dataframe' = r.df
              /\ raised' = r.err
              /\ call' = [fn |-> "extrapolate_backwards_one_county",
                          column_name |-> "x", county_name |-> county_name,
                          year_x |-> year_x, year_y |-> year_y]
    /\ before' = dataframe
    /\ ncalls' = 1
    /\ UNCHANGED <<series, pending, collected, fit>>

NextBackwards == ExtrapolateBackwardsOnce

SpecBackwards == InitBackwards /\ [][NextBackwards]_vars

-----------------------------------------------------------------------------
(* prepare_lagged_features and Specification SpecLag                       *)

\* a - b on floats: NaN when either operand is NaN
Minus(a, b) == IF IsNaN(a) \/ IsNaN(b) THEN NaN ELSE a - b

\* The row of df that lies periods rows before row i within the group of
\* rows sharing row i's terc_code (0 when the group has no such row).
GroupPrevious(df, i, periods) ==
    LET group == SelectSeq([j \in 1..Len(df) |-> j],
                           LAMBDA j : j <= i /\ df[j].terc_code = df[i].terc_code)
    IN  IF Len(group) > periods THEN group[Len(group) - periods] ELSE 0

\* df.groupby("terc_code")[col].diff(periods): per row, the value minus the
\* value periods rows earlier in the same group, NaN for the first rows.
GroupDiff(df, col, periods) ==
    [i \in DOMAIN df |->
        LET j == GroupPrevious(df, i, periods)
        IN  IF j = 0 THEN NaN ELSE Minus(df[i][col], df[j][col])]

\* df[name] = values: the column is added (or replaced) in every row.
WithColumn(df, name, values) ==
    [i \in DOMAIN df |->
        [c \in DOMAIN df[i] \cup {name} |-> IF c = name THEN values[i] ELSE df[i][c]]]

\* lines 105-106: the two delta columns of one indicator
WithDeltas(df, col) ==
    LET d1 == WithColumn(df, col \o "_delta_1_year", GroupDiff(df, col, 1))
    IN  WithColumn(d1, col \o "_delta_5_years", GroupDiff(d1, col, 5))

\* lines 99-108.  ret is the returned frame, dataframe the argument as the
\* call leaves it (the work is done on a copy).
prepare_lagged_features(df, indicators_list) ==
    LET shifted == [i \in DOMAIN df |-> [df[i] EXCEPT !.year = @ + 1]]
        sorted == SortByTercYear(shifted)
        F[n \in 0..Len(indicators_list)] ==
            IF n = 0 THEN sorted ELSE WithDeltas(F[n - 1], indicators_list[n])
    IN  [ret |-> F[Len(indicators_list)], dataframe |-> df]

LagYears == 2000..2006

\* x of terc 0201 in a year: not linear in the year, so that differences
\* over different spans differ.
LagValue(year) == 100 + 10 * (year - 2000) * (year - 2000)

\* Terc 0202 has 2000-2002 with x missing in 2001; terc 0201 has any set of
\* the years 2000-2006, its rows in descending year order.
TablesLag ==
    {<<Row("B", <<0, 2, 0, 2>>, 2001, NaN, 8), Row("B", <<0, 2, 0, 2>>, 2000, 50, 8),
       Row("B", <<0, 2, 0, 2>>, 2002, 70, 9)>>
     \o SelectSeq([k \in 1..7 |-> Row("A", <<0, 2, 0, 1>>, 2007 - k, LagValue(2007 - k), 7)],
                  LAMBDA r : r.year \in years) :
        years \in SUBSET LagYears}

InitLag ==
    /\ dataframe \in TablesLag
    /\ before = dataframe
    /\ call = [fn |-> "none"]
    /\ raised = ""
    /\ ncalls = 0
    /\ series = <<>>
    /\ pending = <<>>
    /\ collected = <<>>
    /\ fit = <<>>

\* features = prepare_lagged_features(dataframe, indicators_list); the
\* returned frame is kept in collected.
PrepareLaggedFeatures ==
    /\ ncalls = 0
    /\ \E indicators_list \in {<<"x">>, <<"z", "x">>} :
          LET r == prepare_lagged_features(dataframe, indicators_list)
          IN  /\ dataframe' = r.dataframe
              /\ collected' = r.ret
              /\ call' = [fn |-> "prepare_lagged_features",
                          indicators_list |-> indicators_list]
    /\ raised' = ""
    /\ before' = dataframe
    /\ ncalls' = 1
    /\ UNCHANGED <<series, pending, fit>>

NextLag == PrepareLaggedFeatures

SpecLag == InitLag /\ [][NextLag]_vars

-----------------------------------------------------------------------------
(* Claims                                                                  *)

\* C1: reconciliation keeps the row count and every row's column set, and
\* changes a cell only in column_name at a row whose (county, year) is one
\* of the supplied keys (county, nearest_year - i); a supplied key without
\* a row adds no row.
C1_ReconcileFrame ==
    call.fn = "update" =>
        /\ Len(dataframe) = Len(before)
        /\ \A i \in DOMAIN before :
              /\ DOMAIN dataframe[i] = DOMAIN before[i]
              /\ \A c \in DOMAIN before[i] :
                    dataframe[i][c] # before[i][c] =>
                        /\ c = call.column_name
                        /\ \E n \in DOMAIN call.valid_results :
                              /\ call.valid_results[n][1] = before[i].county
                              /\ \E k \in 0..(Len(call.valid_results[n][2]) - 1) :
                                    before[i].year = call.nearest_year - k

\* A call that wrote a cell while one of its predictions had no row to go to.
C1_Witness ==
    /\ call.fn = "update"
    /\ raised = ""
    /\ dataframe # before
    /\ \E n \in DOMAIN call.valid_results :
          \E k \in 0..(Len(call.valid_results[n][2]) - 1) :
              /\ ~IsNaN(call.valid_results[n][2][k + 1])
              /\ <<call.valid_results[n][1], call.nearest_year - k>> \notin Keys(before)

\* C2: reconciliation is idempotent: the same call on the table the first
\* call returned returns that table again.
C2_ReconcileIdempotent ==
    ncalls = 2 => (raised = "" /\ dataframe = before)

\* The second call came after a first call that had written a prediction.
C2_Witness ==
    /\ ncalls = 2
    /\ raised = ""
    /\ \E i \in DOMAIN dataframe : dataframe[i].x = 100

CollectedCounties == {collected[i][1] : i \in DOMAIN collected}

\* C3 (as amended): for every entity with at least 3 observations whose fit
\* and prediction raise nothing, backcasting N periods returns exactly N
\* predictions, and reconciliation puts the i-th of them (i = 0..N-1) in the
\* entity's row of year nearest_year - i, leaving its other years as they were.
C3_BackcastCoversYears ==
    \A c \in Range(ArimaCounties) :
        (call.fn \in {"batch", "update"} /\ fit[c].done
            /\ Len(series[c]) >= 3 /\ ~fit[c].failed) =>
            /\ fit[c].ret # None
            /\ fit[c].ret[1] = c
            /\ Len(fit[c].ret[2]) = call.periods
            /\ (call.fn = "update" /\ raised = "") =>
                  \A r \in DOMAIN dataframe :
                      dataframe[r].county = c =>
                          IF call.nearest_year - dataframe[r].year \in 0..(call.periods - 1)
                          THEN dataframe[r].x =
                                   fit[c].ret[2][call.nearest_year - dataframe[r].year + 1]
                          ELSE dataframe[r].x = before[r].x

\* Two different predictions of one entity written to 2001 and 2000 in order.
C3_Witness ==
    /\ call.fn = "update"
    /\ raised = ""
    /\ call.periods = 2
    /\ \E c \in Range(ArimaCounties) :
          /\ fit[c].done /\ ~fit[c].failed /\ fit[c].ret # None
          /\ fit[c].ret[2][1] # fit[c].ret[2][2]
          /\ \E r1, r2 \in DOMAIN dataframe :
                /\ dataframe[r1].county = c /\ dataframe[r1].year = 2001
                /\ dataframe[r1].x = fit[c].ret[2][1]
                /\ dataframe[r2].county = c /\ dataframe[r2].year = 2000
                /\ dataframe[r2].x = fit[c].ret[2][2]

\* C3 as stated: every entity with at least 3 observations gets exactly N
\* predictions.
C3_Original ==
    \A c \in Range(ArimaCounties) :
        (call.fn \in {"batch", "update"} /\ fit[c].done /\ Len(series[c]) >= 3) =>
            (fit[c].ret # None /\ Len(fit[c].ret[2]) = call.periods)

\* C4: an entity with fewer than 3 observations gets None, auto_arima is not
\* called for it, and no exception escapes its call.
C4_ShortSeriesNone ==
    /\ \A c \in Range(ArimaCounties) :
          (call.fn \in {"batch", "update"} /\ fit[c].done /\ Len(series[c]) < 3) =>
              /\ fit[c].ret = None
              /\ ~fit[c].fitted
              /\ fit[c].training_data = None
              /\ c \notin CollectedCounties
    /\ (call.fn = "batch" /\ raised # "") => Len(series[Head(pending)]) >= 3

\* Entities of 0, 1 and 2 observations have all been processed.
C4_Witness ==
    /\ call.fn = "batch"
    /\ pending = <<>>
    /\ {Len(series[c]) : c \in Range(ArimaCounties)} = {0, 1, 2}
    /\ \A c \in Range(ArimaCounties) : fit[c].done

\* C5: an exception of the fit or the prediction never escapes
\* backcasting_arima: the entity's outcome is None, the batch goes on to the
\* end, and the outcomes kept are exactly those of the entities whose fit
\* succeeded.
C5_FitFailureContained ==
    /\ call.fn = "batch" => raised = ""
    /\ \A c \in Range(ArimaCounties) :
          (call.fn \in {"batch", "update"} /\ fit[c].done /\ fit[c].failed) =>
              fit[c].ret = None
    /\ (call.fn = "batch" /\ pending = <<>>) =>
          /\ \A c \in Range(ArimaCounties) : fit[c].done
          /\ CollectedCounties =
                 {c \in Range(ArimaCounties) : fit[c].fitted /\ ~fit[c].failed}

\* The first entity's fit failed and a later entity's result was kept.
C5_Witness ==
    /\ call.fn = "batch"
    /\ pending = <<>>
    /\ fit["A"].failed
    /\ "A" \notin CollectedCounties
    /\ "B" \in CollectedCounties

\* The rows of df for a code and a year.
RowsAt(df, code, year) ==
    {i \in DOMAIN df : df[i].terc_code = code /\ df[i].year = year}

\* C6: for every entity that has 2000 and 2001 and every listed indicator
\* of the table, the one synthesized 1999 row holds 2*value(2000) -
\* value(2001), raised to 0 when that is negative and the indicator is
\* non-negative in every row of the input table.
C6_Synthetic1999 ==
    call.fn = "extrapolate_1999_data" =>
        \A i0, i1 \in DOMAIN before :
            (before[i0].year = 2000 /\ before[i1].year = 2001
                /\ before[i0].terc_code = before[i1].terc_code) =>
                /\ Cardinality(RowsAt(dataframe, before[i0].terc_code, 1999)) = 1
                /\ \A n \in RowsAt(dataframe, before[i0].terc_code, 1999) :
                      \A col \in Range(call.indicators_list) \cap DOMAIN before[i0] :
                          LET v0 == before[i0][col]
                              v1 == before[i1][col]
                              nonneg == \A j \in DOMAIN before :
                                            ~IsNaN(before[j][col]) /\ before[j][col] >= 0
                          IN  dataframe[n][col] =
                                  IF IsNaN(v0) \/ IsNaN(v1) THEN NaN
                                  ELSE IF nonneg /\ 2 * v0 - v1 < 0 THEN 0
                                  ELSE 2 * v0 - v1

\* The two documented cases in one table: 100, 90 gives 110 and 10, 30 gives 0.
C6_Witness ==
    /\ call.fn = "extrapolate_1999_data"
    /\ \E i0, i1, j0, j1 \in DOMAIN before :
          /\ before[i0].terc_code = Str(<<0, 2, 0, 1>>) /\ before[i0].year = 2000
          /\ before[i0].x = 100
          /\ before[i1].terc_code = Str(<<0, 2, 0, 1>>) /\ before[i1].year = 2001
          /\ before[i1].x = 90
          /\ before[j0].terc_code = Str(<<0, 2, 0, 2>>) /\ before[j0].year = 2000
          /\ before[j0].x = 10
          /\ before[j1].terc_code = Str(<<0, 2, 0, 2>>) /\ before[j1].year = 2001
          /\ before[j1].x = 30
    /\ \E n, m \in DOMAIN dataframe :
          /\ dataframe[n].terc_code = Str(<<0, 2, 0, 1>>) /\ dataframe[n].year = 1999
          /\ dataframe[n].x = 110
          /\ dataframe[m].terc_code = Str(<<0, 2, 0, 2>>) /\ dataframe[m].year = 1999
          /\ dataframe[m].x = 0

\* The rows of df for a county and a year.
CountyYearRows(df, county, year) ==
    {i \in DOMAIN df : df[i].county = county /\ df[i].year = year}

\* The linear fit of a county over its rows of 2002-2004 in df.
TrendOf(df, county, column_name) ==
    LET train == SelectSeq(df, LAMBDA r :
                     r.county = county /\ r.year \in {2002, 2003, 2004})
    IN  polyfit([i \in DOMAIN train |-> train[i].year],
                [i \in DOMAIN train |-> train[i][column_name]])

\* C7 as stated: each of 2000 and 2001 of a county gets, on its own, the
\* rounded 2002 value when the 2002-2004 fit predicts <= 0 for that year and
\* the rounded prediction otherwise, and no cell written is <= 0 when the
\* county's 2002 value is positive.
C7_Original ==
    (call.fn = "extrapolate_missing_2000_2001" /\ raised = "") =>
        \A i \in DOMAIN before : \A year \in {2000, 2001} :
            (before[i].year = 2002 /\ HasRow(before, before[i].county, 2003)
                /\ HasRow(before, before[i].county, 2004)) =>
                \A n \in CountyYearRows(dataframe, before[i].county, year) :
                    LET forecast == predict(TrendOf(before, before[i].county, "x"), year)
                        val_2002 == before[i].x
                    IN  /\ dataframe[n].x =
                               IF forecast.num <= 0 THEN Round1(val_2002)
                               ELSE RoundHalfEven(forecast.num, forecast.den, 10)
                        /\ val_2002 > 0 => dataframe[n].x > 0

\* C10 as stated: a county without a 2002 row, or with too few rows among
\* 2002-2004, raises nothing and is left unfilled, and every other county
\* still has its 2000 and 2001 filled.
C10_Original ==
    call.fn = "extrapolate_missing_2000_2001" =>
        /\ raised = ""
        /\ \A i \in DOMAIN dataframe :
              (dataframe[i].year \in {2000, 2001}
                  /\ Cardinality({yr \in {2002, 2003, 2004} :
                         HasRow(before, dataframe[i].county, yr)}) = 3) =>
                  ~IsNaN(dataframe[i].x)

\* C8 as stated: through update_terc_codes and merge_df_by_voivodeship a
\* zero-padded code stays a str with its leading zeros, whatever the type
\* of the code column of the source or secondary table: a row whose county
\* the source lists comes out of update_terc_codes with one of the source's
\* codes for it as the zero-padded string, a row comes out of the merge
\* with the code it went in with, and a code is never a number.
C8_Original ==
    /\ call.fn = "update_terc_codes" =>
          \A k \in DOMAIN dataframe :
              (\E j \in DOMAIN call.source_df :
                   call.source_df[j].county = dataframe[k].county) =>
                  /\ dataframe[k].terc_code.t = "str"
                  /\ \E j \in DOMAIN call.source_df :
                        /\ call.source_df[j].county = dataframe[k].county
                        /\ dataframe[k].terc_code.s =
                               zfill(AsStr(call.source_df[j].terc_code), 4)
    /\ call.fn = "merge_df_by_voivodeship" =>
          \A k \in DOMAIN dataframe :
              /\ dataframe[k].terc_code.t = "str"
              /\ \E i \in DOMAIN before :
                    /\ before[i].county = dataframe[k].county
                    /\ before[i].year = dataframe[k].year
                    /\ before[i].terc_code = dataframe[k].terc_code

\* C9 as stated: after any sequence of passes over a table in which
\* (county, year) is unique the pair is still unique, and no pass deletes a
\* (county, year) row.
C9_Original ==
    /\ UniqueKeys(dataframe)
    /\ Keys(before) \subseteq Keys(dataframe)

\* C11: generate_email never raises to its caller: for every customer record
\* and every category-to-instruction mapping it returns the message body or
\* "ERROR", and it pauses after a successful generation, just before the
\* return, and never on the failure path.
C11_Original ==
    call.fn = "generate_email" =>
        /\ raised = ""
        /\ IF call.client.kind = "completion"
           THEN /\ call.ret = call.client.content
                /\ call.events[Len(call.events)] = "sleep"
                /\ \E i \in DOMAIN call.events : call.events[i] = "create"
           ELSE /\ call.ret = "ERROR"
                /\ \A i \in DOMAIN call.events : call.events[i] # "sleep"

\* C12: in both copies of database_methods.py, psql_insert_copy streams all
\* the row tuples and returns the number of rows the COPY wrote; it returns
\* None only when the cursor's row count is unavailable.
C12_Original ==
    (call.fn = "psql_insert_copy" /\ raised = "") =>
        /\ dataframe = before \o call.data_iter
        /\ call.db.rowcount >= 0 => call.ret = IntValue(Len(call.data_iter))
        /\ call.ret.none => call.db.rowcount < 0

\* The linear fit of a county over its rows with lo <= year <= hi in df.
WindowFit(df, county, column_name, lo, hi) ==
    LET train == SelectSeq(df, LAMBDA r :
                     r.county = county /\ r.year >= lo /\ r.year <= hi)
    IN  polyfit([i \in DOMAIN train |-> train[i].year],
                [i \in DOMAIN train |-> train[i][column_name]])

\* C13: extrapolate_backwards_one_county fits the named county's rows with
\* year in [year_y + 1, 2024] only and writes the prediction rounded to one
\* decimal to column_name in every row of that county with year in
\* [year_x, year_y]; every other cell is left as it was and no row is added
\* (a call whose fit raises writes nothing).
C13_BackwardsFrame ==
    call.fn = "extrapolate_backwards_one_county" =>
        LET model == WindowFit(before, call.county_name, call.column_name,
                               call.year_y + 1, 2024)
        IN  /\ Len(dataframe) = Len(before)
            /\ raised = model.err
            /\ \A i \in DOMAIN before :
                  IF /\ raised = ""
                     /\ before[i].county = call.county_name
                     /\ before[i].year \in call.year_x..call.year_y
                  THEN LET forecast == predict(model, before[i].year)
                       IN  dataframe[i] =
                               [before[i] EXCEPT ![call.column_name] =
                                   RoundHalfEven(forecast.num, forecast.den, 10)]
                  ELSE dataframe[i] = before[i]

\* County A's 2000 and 2001 are filled from the fit over 2002 and 2003:
\* 1.13 and 1.50 give 0.39 and 0.76, written as 0.4 and 0.8; the 2025 row
\* takes no part in the fit, and county B and column z are as before.
C13_Witness ==
    /\ call.fn = "extrapolate_backwards_one_county" /\ raised = ""
    /\ call.county_name = "A" /\ call.year_x = 1999 /\ call.year_y = 2001
    /\ \E i, j, k, l, h \in DOMAIN before :
          /\ before[i].county = "A" /\ before[i].year = 2000 /\ IsNaN(before[i].x)
          /\ dataframe[i].x = 40 /\ dataframe[i].z = before[i].z
          /\ before[j].county = "A" /\ before[j].year = 2001 /\ dataframe[j].x = 80
          /\ before[k].county = "A" /\ before[k].year = 2002 /\ before[k].x = 113
          /\ before[l].county = "A" /\ before[l].year = 2003 /\ before[l].x = 150
          /\ before[h].county = "A" /\ before[h].year = 2025 /\ before[h].x = 900
          /\ dataframe[h] = before[h]
    /\ \E b \in DOMAIN before :
          before[b].county = "B" /\ before[b].year = 2000 /\ dataframe[b] = before[b]

\* The difference between a row's value of col and the value of col in the
\* row of the same terc_code span years earlier; missing when there is no
\* such row.
DeltaByYear(df, i, col, span) ==
    LET earlier == {j \in DOMAIN df : /\ df[j].terc_code = df[i].terc_code
                                      /\ df[j].year = df[i].year - span}
    IN  IF earlier = {} THEN NaN
        ELSE Minus(df[i][col], df[CHOOSE j \in earlier : TRUE][col])

\* C14: prepare_lagged_features returns every input row with its year
\* raised by exactly 1; for every listed indicator, delta_1_year of a row is
\* its value minus the value of the same terc_code one year earlier and
\* delta_5_years its value minus the value five years earlier, missing when
\* the terc_code has no row for that earlier year; the input is unchanged.
C14_Original ==
    call.fn = "prepare_lagged_features" =>
        /\ dataframe = before
        /\ Len(collected) = Len(before)
        /\ \A i \in DOMAIN before : \E n \in DOMAIN collected :
              /\ collected[n].year = before[i].year + 1
              /\ \A c \in DOMAIN before[i] \ {"year"} : collected[n][c] = before[i][c]
        /\ \A n \in DOMAIN collected : \A k \in DOMAIN call.indicators_list :
              LET col == call.indicators_list[k]
              IN  /\ collected[n][col \o "_delta_1_year"] = DeltaByYear(collected, n, col, 1)
                  /\ collected[n][col \o "_delta_5_years"] = DeltaByYear(collected, n, col, 5)

\* The source rows whose county is that of a target row, and those among
\* them whose code, as str, starts with the two characters of the row's code.
SourceMatches(source_df, row) ==
    {j \in DOMAIN source_df : source_df[j].county = row.county}

PrefixMatches(source_df, row) ==
    {j \in SourceMatches(source_df, row) :
        Prefix(AsStr(source_df[j].terc_code), 2) = Prefix(AsStr(row.terc_code), 2)}

\* C15: update_terc_codes returns one row per row of target_df, in the
\* original order, with the original index labels and columns, whatever the
\* number of source rows a county matches; when some match has the first
\* two characters of the row's original code, the kept code is such a
\* match; target_df itself is not modified.
C15_Original ==
    call.fn = "update_terc_codes" =>
        /\ call.target_df = before
        /\ Len(dataframe) = Len(before)
        /\ \A i \in DOMAIN before :
              /\ DOMAIN dataframe[i] = DOMAIN before[i]
              /\ \A c \in DOMAIN before[i] \ {"terc_code"} : dataframe[i][c] = before[i][c]
              /\ PrefixMatches(call.source_df, before[i]) # {} =>
                    \E j \in PrefixMatches(call.source_df, before[i]) :
                        dataframe[i].terc_code = Str(AsStr(call.source_df[j].terc_code))

====
